---- MODULE Spec2Model ----
(***************************************************************************)
(* FencyScore: the competitor scoring model (logic/competitor/player.py),  *)
(* the match state machine (logic/match.py) and the round pairing engine   *)
(* (logic/round.py).                                                       *)
(*                                                                         *)
(* Exceptions are modelled by the name of the error the raise statement    *)
(* stands for; every ValueError of the source is told apart by its raise   *)
(* site:                                                                   *)
(*   "DuplicateOpponent"   player.py:103,105   "NegativeTouches" :107      *)
(*   "AlreadyExempted"     player.py:145                                   *)
(*   "LockedMatchMutation" match.py:195   "InvalidMatchRecord" match.py:307*)
(*   "UnmatchableRound"    round.py:117                                    *)
(* and the interpreter's own errors keep their Python names                *)
(* ("AttributeError", "TypeError", "IndexError").                          *)
(***************************************************************************)
EXTENDS Integers, Sequences, FiniteSets, TLC

\* ------------------------------------------------------------------ bounds
NumPlayers == 3
MaxTouch == 1
MaxCalls == 3
MaxScore == 1

MaxRoster == 4

\* ------------------------------------------------------- program constants
\* Optional[int] score left unset (None).
NoScore == -1
\* Optional[Player] bye left unset (None); ids start at 1.
NoPlayer == 0
\* Optional[...] value None of an enumeration or of the score cache.
None == "None"
NoCache == << >>

Ids == 1..NumPlayers
MatchResult == {"WIN", "LOSS", "DRAW"}
PlayerStatus == {"WIN", "LOSS", "DRAW"}
MatchStatus == {"EMPTY", "VALID", "INVALID", "LOCKED"}

VARIABLES
    players,    \* id -> the Player's fields
    m,          \* the Match under observation: its fields and both Sides
    round,      \* the latest call's Round, if it was a construction: its outcome,
                \* its players list (the roster, sorted in place), bye and matches
    recorded,   \* pairs recorded against each other since either was reset
    ncalls,     \* number of calls made on the competitors and rounds
    last        \* the latest call: operation, arguments, error raised

vars == <<players, m, round, recorded, ncalls, last>>

\* No Round has been returned by the latest call.
NoRound == [status |-> "none", players |-> << >>, bye |-> NoPlayer, grouped |-> << >>]

\* ------------------------------------------------------------------ Player
NewPlayer ==
    [victories |-> 0, draws |-> 0, touches_scored |-> 0, touches_received |-> 0,
     opponents |-> {}, exempted |-> FALSE, cached_score |-> NoCache]

result(p) == <<p.victories, p.draws>>

indicator(p) == p.touches_scored - p.touches_received

ComputedScore(p) == <<result(p), indicator(p), p.touches_scored>>

\* Player.score: the cached tuple, computed and stored when the cache is empty.
score(p) == IF p.cached_score = NoCache THEN ComputedScore(p) ELSE p.cached_score

ScoreAccess(p) == [p EXCEPT !.cached_score = score(p)]

\* Python's lexicographic order on ((victories, draws), indicator, touches).
TupleLt(s, t) ==
    \/ s[1][1] < t[1][1]
    \/ s[1][1] = t[1][1] /\ s[1][2] < t[1][2]
    \/ s[1] = t[1] /\ s[2] < t[2]
    \/ s[1] = t[1] /\ s[2] = t[2] /\ s[3] < t[3]

\* Player.__lt__
PlayerLt(ps, a, b) == TupleLt(score(ps[a]), score(ps[b]))

result_map(self_result) ==
    CASE self_result = "WIN" -> <<"WIN", "LOSS">>
      [] self_result = "LOSS" -> <<"LOSS", "WIN">>
      [] self_result = "DRAW" -> <<"DRAW", "DRAW">>

RecordStoresOpponent(opponent_id) == {opponent_id}

record_match_side_keeping_cache(p, opponent_id, self_result, touches_scored, touches_received) ==
    [p EXCEPT
        !.victories = IF self_result = "WIN" THEN @ + 1 ELSE @,
        !.draws = IF self_result = "WIN" THEN @
                  ELSE IF self_result = "DRAW" THEN @ + 1 ELSE @,
        !.touches_scored = @ + touches_scored,
        !.touches_received = @ + touches_received,
        !.opponents = @ \cup RecordStoresOpponent(opponent_id)]

record_match_side_else_draw(p, opponent_id, self_result, touches_scored, touches_received) ==
    [p EXCEPT
        !.victories = IF self_result = "WIN" THEN @ + 1 ELSE @,
        !.draws = IF self_result = "WIN" THEN @ ELSE @ + 1,
        !.touches_scored = @ + touches_scored,
        !.touches_received = @ + touches_received,
        !.opponents = @ \cup RecordStoresOpponent(opponent_id),
        !.cached_score = NoCache]

\* Player._record_match_side
record_match_side(p, opponent_id, self_result, touches_scored, touches_received) ==
    [p EXCEPT
        !.victories = IF self_result = "WIN" THEN @ + 1 ELSE @,
        !.draws = IF self_result = "WIN" THEN @
                  ELSE IF self_result = "DRAW" THEN @ + 1 ELSE @,
        !.touches_scored = @ + touches_scored,
        !.touches_received = @ + touches_received,
        !.opponents = @ \cup RecordStoresOpponent(opponent_id),
        !.cached_score = NoCache]

AlreadyFaced_self_only(ps, a, b) == b \in ps[a].opponents

\* The two duplicate checks of Player.record_match.
AlreadyFaced(ps, a, b) == b \in ps[a].opponents \/ a \in ps[b].opponents

\* The error Player.record_match raises on these arguments, "none" if none.
record_match_error(ps, a, b, s, r) ==
    IF AlreadyFaced(ps, a, b) THEN "DuplicateOpponent"
    ELSE IF s < 0 \/ r < 0 THEN "NegativeTouches"
    ELSE "none"

record_match_effect_self_only(ps, a, b, res, s, r) ==
    [ps EXCEPT ![a] = record_match_side(ps[a], b, result_map(res)[1], s, r)]

\* The players after the two _record_match_side calls, self first.
record_match_effect(ps, a, b, res, s, r) ==
    LET rm == result_map(res)
        ps1 == [ps EXCEPT ![a] = record_match_side(ps[a], b, rm[1], s, r)]
    IN  [ps1 EXCEPT ![b] = record_match_side(ps1[b], a, rm[2], r, s)]

\* A call on a competitor or on the match, and the error it raised.
Call(op, err, a, b, res, s, r) ==
    [op |-> op, err |-> err, a |-> a, b |-> b, res |-> res, s |-> s, r |-> r,
     roster |-> << >>]

\* A Round construction over a roster, and the error it raised.
RoundCall(err, roster) ==
    [op |-> "round", err |-> err, a |-> NoPlayer, b |-> NoPlayer, res |-> None,
     s |-> 0, r |-> 0, roster |-> roster]

\* One more call is made, within the bound on the calls of a run.
Counted == ncalls < MaxCalls /\ ncalls' = ncalls + 1

\* Player.record_match(opponent=b, self_result=res, touches_scored=s, touches_received=r)
\* on a. A call that raises is logged without its result and touches.
Player_record_match(a, b, res, s, r) ==
    LET e == record_match_error(players, a, b, s, r) IN
    /\ Counted
    /\ IF e = "none"
       THEN /\ players' = record_match_effect(players, a, b, res, s, r)
            /\ recorded' = recorded \cup {{a, b}}
            /\ last' = Call("record_match", e, a, b, res, s, r)
       ELSE /\ last' = Call("record_match", e, a, b, None, 0, 0)
            /\ UNCHANGED <<players, recorded>>
    /\ round' = NoRound
    /\ UNCHANGED m

\* Player.add_bye
add_bye(a) ==
    /\ Counted
    /\ last' = Call("add_bye", IF players[a].exempted THEN "AlreadyExempted" ELSE "none",
                    a, NoPlayer, None, 0, 0)
    /\ players' = IF players[a].exempted THEN players
                  ELSE [players EXCEPT ![a].exempted = TRUE]
    /\ round' = NoRound
    /\ UNCHANGED <<m, recorded>>

\* Player.reset
reset(a) ==
    /\ Counted
    /\ last' = Call("reset", "none", a, NoPlayer, None, 0, 0)
    /\ players' = [players EXCEPT ![a] = NewPlayer]
    /\ recorded' = {pr \in recorded : a \notin pr}
    /\ round' = NoRound
    /\ UNCHANGED m

\* A read of Player.score: it returns score(players[a]) and leaves it in the
\* cache.
Player_score(a) ==
    /\ Counted
    /\ players' = [players EXCEPT ![a] = ScoreAccess(players[a])]
    /\ last' = Call("score", "none", a, NoPlayer, None, 0, 0)
    /\ round' = NoRound
    /\ UNCHANGED <<m, recorded>>

\* -------------------------------------------------------------------- Side
NewSide(player, sc, ps) == [player |-> player, score |-> sc, player_status |-> ps]

\* Side._set_player_status_from_opponent
set_player_status_from_opponent(other) ==
    CASE other.player_status = "WIN" -> "LOSS"
      [] other.player_status = "LOSS" -> "WIN"
      [] other.player_status = "DRAW" -> "DRAW"

\* Side._set_player_status_from_scores
set_player_status_from_scores(self, other) ==
    IF self.score > other.score THEN "WIN"
    ELSE IF self.score < other.score THEN "LOSS"
    ELSE "DRAW"

update_player_status_scores_first(self, other, player_status) ==
    IF player_status # None THEN player_status
    ELSE IF self.score # NoScore /\ other.score # NoScore
         THEN set_player_status_from_scores(self, other)
    ELSE IF other.player_status # None THEN set_player_status_from_opponent(other)
    ELSE None

\* Side._update_player_status, on a side whose score is already updated
update_player_status(self, other, player_status) ==
    IF player_status # None THEN player_status
    ELSE IF other.player_status # None THEN set_player_status_from_opponent(other)
    ELSE IF self.score # NoScore /\ other.score # NoScore
         THEN set_player_status_from_scores(self, other)
    ELSE None

\* Side.update: _update_score, then _update_player_status
Side_update(self, other, player_status, sc) ==
    LET scored == [self EXCEPT !.score = sc]
    IN  [scored EXCEPT !.player_status = update_player_status(scored, other, player_status)]

\* ------------------------------------------------------------------- Match
\* The attributes of the slotted class Match; no other name can be read or set.
MatchSlots == {"piste", "score_max", "draw_allowed", "right", "left", "match_status"}

\* Match._is_empty
is_empty(mm) ==
    \/ mm.right.player_status = None
    \/ mm.left.player_status = None
    \/ mm.right.score = NoScore
    \/ mm.left.score = NoScore

is_invalid_with_draw_allowed_by_player_status(mm) ==
    mm.right.player_status = mm.left.player_status /\ mm.right.player_status # "DRAW"

is_invalid_with_draw_allowed_by_score_lenient(mm) ==
    \/ mm.right.player_status = "WIN" /\ mm.right.score < mm.left.score
    \/ mm.right.player_status = "LOSS" /\ mm.right.score > mm.left.score
    \/ mm.right.player_status = "DRAW" /\ mm.right.score # mm.left.score
    \/ mm.left.player_status = "WIN" /\ mm.left.score < mm.right.score
    \/ mm.left.player_status = "LOSS" /\ mm.left.score > mm.right.score
    \/ mm.left.player_status = "DRAW" /\ mm.left.score # mm.right.score

is_invalid_with_draw_allowed_by_score(mm) ==
    \/ mm.right.player_status = "WIN" /\ mm.right.score <= mm.left.score
    \/ mm.right.player_status = "LOSS" /\ mm.right.score >= mm.left.score
    \/ mm.right.player_status = "DRAW" /\ mm.right.score # mm.left.score
    \/ mm.left.player_status = "WIN" /\ mm.left.score <= mm.right.score
    \/ mm.left.player_status = "LOSS" /\ mm.left.score >= mm.right.score
    \/ mm.left.player_status = "DRAW" /\ mm.left.score # mm.right.score

is_invalid_with_draw_allowed(mm) ==
    \/ is_invalid_with_draw_allowed_by_player_status(mm)
    \/ is_invalid_with_draw_allowed_by_score(mm)

is_invalid_without_draw_allowed_by_player_status(mm) ==
    \/ mm.right.player_status = mm.left.player_status
    \/ mm.right.player_status = "DRAW"
    \/ mm.left.player_status = "DRAW"

is_invalid_without_draw_allowed_by_score_strict(mm) ==
    \/ mm.right.player_status = "WIN" /\ mm.right.score <= mm.left.score
    \/ mm.right.player_status = "LOSS" /\ mm.right.score >= mm.left.score
    \/ mm.left.player_status = "WIN" /\ mm.left.score <= mm.right.score
    \/ mm.left.player_status = "LOSS" /\ mm.left.score >= mm.right.score

is_invalid_without_draw_allowed_by_score(mm) ==
    \/ mm.right.player_status = "WIN" /\ mm.right.score < mm.left.score
    \/ mm.right.player_status = "LOSS" /\ mm.right.score > mm.left.score
    \/ mm.left.player_status = "WIN" /\ mm.left.score < mm.right.score
    \/ mm.left.player_status = "LOSS" /\ mm.left.score > mm.right.score

is_invalid_without_draw_allowed(mm) ==
    \/ is_invalid_without_draw_allowed_by_player_status(mm)
    \/ is_invalid_without_draw_allowed_by_score(mm)

\* Match._is_invalid
is_invalid(mm) ==
    IF mm.draw_allowed THEN is_invalid_with_draw_allowed(mm)
    ELSE is_invalid_without_draw_allowed(mm)

\* The value Match._update_match_status computes before it stores it.
ComputedStatus(mm) ==
    IF is_empty(mm) THEN "EMPTY"
    ELSE IF is_invalid(mm) THEN "INVALID"
    ELSE "VALID"

\* An ordering comparison (<, <=, >, >=) of the two scores is evaluated for a
\* side whose result is WIN or LOSS; with a score unset it raises TypeError.
OrdersScores(mm) ==
    \E side \in {"right", "left"} : mm[side].player_status \in {"WIN", "LOSS"}

\* The error Match._is_invalid raises: the result check short-circuits the
\* score check, whose comparisons are all evaluated (a tuple handed to any()).
is_invalid_error(mm) ==
    LET by_player_status == IF mm.draw_allowed
                            THEN is_invalid_with_draw_allowed_by_player_status(mm)
                            ELSE is_invalid_without_draw_allowed_by_player_status(mm)
    IN  IF /\ ~by_player_status
           /\ OrdersScores(mm)
           /\ (mm.right.score = NoScore \/ mm.left.score = NoScore)
        THEN "TypeError"
        ELSE "none"

\* self.<name> = value on a Match: AttributeError unless <name> is a slot.
SetAttr(mm, name, value) ==
    IF name \in MatchSlots
    THEN [m |-> [mm EXCEPT ![name] = value], err |-> "none"]
    ELSE [m |-> mm, err |-> "AttributeError"]

\* Match._update_match_status: the computed value is stored in self.status.
update_match_status(mm) == SetAttr(mm, "status", ComputedStatus(mm))

\* The condition under which Match._update_side raises its ValueError.
UpdateGuard(mm) == mm.match_status # "LOCKED"

\* Match._update_side(self_side, other_side, player_status, score)
update_side(self_side, other_side, player_status, sc) ==
    IF UpdateGuard(m)
    THEN [m |-> m, err |-> "LockedMatchMutation"]
    ELSE update_match_status(
            [m EXCEPT ![self_side] = Side_update(m[self_side], m[other_side], player_status, sc)])

\* Match.update_right
update_right(player_status, sc) ==
    LET out == update_side("right", "left", player_status, sc) IN
    /\ m' = out.m
    /\ last' = Call("update_right", out.err, NoPlayer, NoPlayer, player_status, sc, 0)
    /\ UNCHANGED <<players, round, recorded, ncalls>>

\* Match.update_left
update_left(player_status, sc) ==
    LET out == update_side("left", "right", player_status, sc) IN
    /\ m' = out.m
    /\ last' = Call("update_left", out.err, NoPlayer, NoPlayer, player_status, sc, 0)
    /\ UNCHANGED <<players, round, recorded, ncalls>>

Side_update_call_refreshing(self_side, other_side, player_status, sc) ==
    LET updated == Side_update(m[self_side], m[other_side], player_status, sc) IN
    /\ m' = [m EXCEPT ![self_side] = updated,
                      ![other_side].player_status =
                            IF updated.player_status = None THEN @
                            ELSE set_player_status_from_opponent(updated)]
    /\ last' = Call(self_side \o ".update", "none", NoPlayer, NoPlayer, player_status, sc, 0)
    /\ UNCHANGED <<players, round, recorded, ncalls>>

\* Side.update called on a side of the match, the other side as other:
\* match.<self_side>.update(other=match.<other_side>, player_status=..., score=...)
Side_update_call(self_side, other_side, player_status, sc) ==
    /\ m' = [m EXCEPT ![self_side] = Side_update(m[self_side], m[other_side], player_status, sc)]
    /\ last' = Call(self_side \o ".update", "none", NoPlayer, NoPlayer, player_status, sc, 0)
    /\ UNCHANGED <<players, round, recorded, ncalls>>

\* Python's bool, by name.
BoolName(b) == IF b THEN "True" ELSE "False"

\* Match._is_invalid called on the match: the value returned, or the error.
Match_is_invalid ==
    LET e == is_invalid_error(m) IN
    /\ last' = Call("_is_invalid", e, NoPlayer, NoPlayer,
                    IF e = "none" THEN BoolName(is_invalid(m)) ELSE None, 0, 0)
    /\ UNCHANGED <<players, m, round, recorded, ncalls>>

\* The keywords Match._record_match_for_side passes, and the keyword-only
\* parameters Player.record_match takes.
RecordKeywords == {"result", "scored", "received", "opponent"}
RecordParameters == {"opponent", "self_result", "touches_scored", "touches_received"}

\* Match._record_match_for_side: one Player.record_match call
record_match_for_side(ps, self_side, other_side) ==
    IF RecordKeywords # RecordParameters
    THEN [players |-> ps, err |-> "TypeError"]
    ELSE LET a == self_side.player
             b == other_side.player
             e == record_match_error(ps, a, b, self_side.score, other_side.score)
         IN  IF e # "none" THEN [players |-> ps, err |-> e]
             ELSE [players |-> record_match_effect(ps, a, b, self_side.player_status,
                                                   self_side.score, other_side.score),
                   err |-> "none"]

\* Match.record_match: the guard reads self.status
Match_record_match_result ==
    IF "status" \notin MatchSlots
    THEN [players |-> players, m |-> m, err |-> "AttributeError"]
    ELSE IF m["status"] # "VALID"
    THEN [players |-> players, m |-> m, err |-> "InvalidMatchRecord"]
    ELSE LET one == record_match_for_side(players, m.right, m.left)
             two == record_match_for_side(one.players, m.left, m.right)
         IN  IF one.err # "none" THEN [players |-> one.players, m |-> m, err |-> one.err]
             ELSE IF two.err # "none" THEN [players |-> two.players, m |-> m, err |-> two.err]
             ELSE [players |-> two.players,
                   m |-> [m EXCEPT !.match_status = "LOCKED"], err |-> "none"]

Match_record_match ==
    LET out == Match_record_match_result IN
    /\ players' = out.players
    /\ m' = out.m
    /\ last' = Call("match_record_match", out.err, m.right.player, m.left.player, None, 0, 0)
    /\ UNCHANGED <<round, recorded, ncalls>>

\* ------------------------------------------------------------------- Round
Abs(x) == IF x < 0 THEN -x ELSE x

RECURSIVE SumOver(_, _)
SumOver(S, w) ==
    IF S = {} THEN 0
    ELSE LET x == CHOOSE y \in S : TRUE IN w[x] + SumOver(S \ {x}, w)

RECURSIVE SumLens(_)
SumLens(ss) == IF ss = << >> THEN 0 ELSE Cardinality(Head(ss)) + SumLens(Tail(ss))

\* The rosters handed to Round: lists of distinct players, in any order.
Rosters ==
    {s \in UNION {[1..n -> Ids] : n \in 0..NumPlayers} :
        \A i, j \in DOMAIN s : i # j => s[i] # s[j]}

\* x is placed before e by list.sort exactly when x < e (Player.__lt__).
SortBefore(ps, x, e) == PlayerLt(ps, x, e)

\* One insertion of the stable sort: x goes before the first element it precedes.
InsertSorted(ps, x, sorted) ==
    LET later == {i \in DOMAIN sorted : SortBefore(ps, x, sorted[i])}
        at == IF later = {} THEN Len(sorted) + 1
              ELSE CHOOSE i \in later : \A k \in later : i <= k
    IN  SubSeq(sorted, 1, at - 1) \o <<x>> \o SubSeq(sorted, at, Len(sorted))

\* self.players.sort(): stable, ascending in Player.__lt__
RECURSIVE SortFrom(_, _, _)
SortFrom(ps, seq, sorted) ==
    IF seq = << >> THEN sorted
    ELSE SortFrom(ps, Tail(seq), InsertSorted(ps, Head(seq), sorted))

sort(ps, seq) == SortFrom(ps, seq, << >>)

\* The sort reads Player.score of every player it compares, which fills the
\* cache; a list of fewer than two players is not compared at all.
SortCaches(ps, seq) ==
    IF Len(seq) < 2 THEN ps
    ELSE [a \in DOMAIN ps |->
            IF \E i \in DOMAIN seq : seq[i] = a THEN ScoreAccess(ps[a]) ELSE ps[a]]

RemoveAt(seq, i) == SubSeq(seq, 1, i - 1) \o SubSeq(seq, i + 1, Len(seq))

\* Round._separate_players
separate_players(ps, sorted) ==
    LET free == {i \in DOMAIN sorted : ~ps[sorted[i]].exempted} IN
    IF Len(sorted) % 2 # 0 /\ free # {}
    THEN LET i == CHOOSE k \in free : \A l \in free : l <= k
         IN  [players |-> RemoveAt(sorted, i), bye |-> sorted[i]]
    ELSE [players |-> sorted, bye |-> NoPlayer]

PairLt(s, t) == s[1] < t[1] \/ (s[1] = t[1] /\ s[2] < t[2])

\* sorted(groups.keys(), reverse=True)
RECURSIVE KeysDescending(_)
KeysDescending(keys) ==
    IF keys = {} THEN << >>
    ELSE LET top == CHOOSE k \in keys : \A o \in keys : o = k \/ PairLt(o, k)
         IN  <<top>> \o KeysDescending(keys \ {top})

\* The last loop of Round._group_players, from group i on.
RECURSIVE EvenOut(_, _)
EvenOut(groups, i) ==
    IF i >= Len(groups) THEN groups
    ELSE IF Len(groups[i]) % 2 # 0
    THEN EvenOut([groups EXCEPT ![i] = Append(@, Head(groups[i + 1])),
                                ![i + 1] = Tail(@)], i + 1)
    ELSE EvenOut(groups, i + 1)

\* The loop with the odd group's last member moved to the head of the next.
RECURSIVE EvenOut_moving_down(_, _)
EvenOut_moving_down(groups, i) ==
    IF i >= Len(groups) THEN groups
    ELSE IF Len(groups[i]) % 2 # 0
    THEN EvenOut_moving_down(
            [groups EXCEPT ![i] = SubSeq(@, 1, Len(@) - 1),
                           ![i + 1] = <<groups[i][Len(groups[i])]>> \o @], i + 1)
    ELSE EvenOut_moving_down(groups, i + 1)

group_players_moving_down(ps, competing) ==
    LET keys == KeysDescending({result(ps[competing[i]]) : i \in DOMAIN competing})
        by_result == [k \in DOMAIN keys |->
                        SelectSeq(competing, LAMBDA a : result(ps[a]) = keys[k])]
    IN  EvenOut_moving_down(by_result, 1)

\* Round._group_players
group_players(ps, competing) ==
    LET keys == KeysDescending({result(ps[competing[i]]) : i \in DOMAIN competing})
        by_result == [k \in DOMAIN keys |->
                        SelectSeq(competing, LAMBDA a : result(ps[a]) = keys[k])]
    IN  EvenOut(by_result, 1)

\* Round._matching_distance
matching_distance(rank1, rank2, size) == Abs(Abs(rank1 - rank2) - (size \div 2))

MayMeet_anyone(ps, player1, player2) == TRUE

\* The edge condition of Round._group_to_matching_graph.
MayMeet(ps, player1, player2) == player2 \notin ps[player1].opponents

\* Round._group_to_matching_graph: the weighted edges, by 0-based rank in the group.
group_to_matching_graph(ps, group) ==
    LET size == Len(group)
        E == {e \in (0..size - 1) \X (0..size - 1) :
                e[1] < e[2] /\ MayMeet(ps, group[e[1] + 1], group[e[2] + 1])}
    IN  [e \in E |-> matching_distance(e[1], e[2], size)]

\* Every matching of the graph on these nodes.
RECURSIVE AllMatchings(_, _)
AllMatchings(nodes, E) ==
    IF nodes = {} THEN {{}}
    ELSE LET n == CHOOSE k \in nodes : \A l \in nodes : k <= l
             rest == nodes \ {n}
         IN  AllMatchings(rest, E) \cup
             UNION {{mm \cup {<<n, q>>} : mm \in AllMatchings(rest \ {q}, E)} :
                        q \in {q \in rest : <<n, q>> \in E}}

\* networkx.min_weight_matching: a matching of maximum cardinality and, among
\* those, of minimum total weight; which of several is returned is the library's
\* choice.
min_weight_matching(size, graph) ==
    LET all == AllMatchings(0..size - 1, DOMAIN graph)
        most == {mm \in all : \A o \in all : Cardinality(o) <= Cardinality(mm)}
    IN  {mm \in most : \A o \in most : SumOver(mm, graph) <= SumOver(o, graph)}

\* The number of pairs Round._match_group asks of a group's matching.
RequiredMatches(group) == Len(group) % 2

\* Round._match_group: every value the call can return (a set of pairs of players).
match_group(ps, group) ==
    {IF Cardinality(mm) # RequiredMatches(group) THEN {}
     ELSE {{group[e[1] + 1], group[e[2] + 1]} : e \in mm} :
        mm \in min_weight_matching(Len(group), group_to_matching_graph(ps, group))}

Built(grouped_matches) == [err |-> "none", grouped |-> grouped_matches]
Raised(err) == [err |-> err, grouped |-> << >>]

\* The condition of the forward merge in Round._merge_groups (j is 0-based).
MergeForwardGuard(j, groups) == j < Len(groups)

\* Round._merge_groups, at iteration i of the loop over groups[start:]: every
\* outcome the call can have.
RECURSIVE merge_groups(_, _, _, _, _)
merge_groups(ps, groups, grouped_matches, start, i) ==
    LET j == start + i
        n == Len(groups)
    IN
    IF j >= n THEN {Built(grouped_matches)}
    ELSE UNION {
        IF group_matches # {}
        THEN merge_groups(ps, groups, Append(grouped_matches, group_matches), start, i + 1)
        ELSE IF MergeForwardGuard(j, groups)
        THEN IF j + 1 >= n THEN {Raised("IndexError")}
             ELSE merge_groups(ps,
                      [k \in 1..n - 1 |->
                          IF k < j + 1 THEN groups[k]
                          ELSE IF k = j + 1 THEN groups[j + 1] \o groups[j + 2]
                          ELSE groups[k + 1]],
                      grouped_matches, j, 0)
        ELSE IF n > 1
        THEN merge_groups(ps,
                 [k \in 1..n - 1 |-> IF k = n - 1 THEN groups[n - 1] \o groups[n]
                                     ELSE groups[k]],
                 SubSeq(grouped_matches, 1, Len(grouped_matches) - 1), j - 1, 0)
        ELSE {Raised("UnmatchableRound")}
        : group_matches \in match_group(ps, groups[j + 1])}

\* Round._match_groups
match_groups(ps, groups) == merge_groups(ps, groups, << >>, 0, 0)

\* Round(rank=..., players=roster): __attrs_post_init__. The roster list is
\* sorted in place before anything can raise, so the caller sees it sorted also
\* when the construction raises; a Round whose construction raises is never
\* returned, so it exposes no matches and no bye.
NewRound(roster) ==
    LET sorted == sort(players, roster)
        ps == SortCaches(players, roster)
        sep == separate_players(ps, sorted)
        groups == group_players(ps, sep.players)
    IN  /\ Counted
        /\ \E out \in match_groups(ps, groups) :
            /\ players' = ps
            /\ round' = IF out.err = "none"
                        THEN [status |-> "ok", players |-> sorted, bye |-> sep.bye,
                              grouped |-> out.grouped]
                        ELSE [status |-> out.err, players |-> sorted, bye |-> NoPlayer,
                              grouped |-> << >>]
            /\ last' = RoundCall(out.err, roster)
            /\ UNCHANGED <<m, recorded>>

\* Round._group_players(competing), a static method: the groups it returns are
\* kept in round.grouped, the list it was given in round.players.
Round_group_players(competing) ==
    /\ Counted
    /\ round' = [status |-> "groups", players |-> competing, bye |-> NoPlayer,
                 grouped |-> group_players(players, competing)]
    /\ last' = [RoundCall("none", competing) EXCEPT !.op = "group_players"]
    /\ UNCHANGED <<players, m, recorded>>

\* _ungroup_matches: the pairs of the round, and how many the list holds.
RECURSIVE ungroup_matches(_)
ungroup_matches(grouped) ==
    IF grouped = << >> THEN {} ELSE Head(grouped) \cup ungroup_matches(Tail(grouped))

NumMatches(rd) == SumLens(rd.grouped)

\* ---------------------------------------------------------- specifications
FreshPlayers == [a \in Ids |-> NewPlayer]

Scores == {NoScore} \cup 0..MaxScore
Touches == -1..MaxTouch

\* A Match as its constructor accepts it (two different players; score,
\* player_status and match_status are constructor arguments), in a state the
\* match is meant to be in: the status its sides give it, or LOCKED over sides
\* that were VALID.
Matches ==
    {mm \in [right : {NewSide(1, rs, rp) : rs \in Scores, rp \in PlayerStatus \cup {None}},
             left : {NewSide(2, ls, lp) : ls \in Scores, lp \in PlayerStatus \cup {None}},
             draw_allowed : BOOLEAN, match_status : MatchStatus] :
        \/ mm.match_status = ComputedStatus(mm)
        \/ mm.match_status = "LOCKED" /\ ComputedStatus(mm) = "VALID"}

NewMatch ==
    [right |-> NewSide(1, NoScore, None), left |-> NewSide(2, NoScore, None),
     draw_allowed |-> TRUE, match_status |-> "EMPTY"]

NoCall == Call("none", "none", NoPlayer, NoPlayer, None, 0, 0)

InitPlayers ==
    /\ players = FreshPlayers
    /\ recorded = {}
    /\ ncalls = 0
    /\ round = NoRound
    /\ last = NoCall

\* The competitors alone.
Init == InitPlayers /\ m = NewMatch

PlayerNext ==
    \/ \E a, b \in Ids, res \in MatchResult, s, r \in Touches :
          Player_record_match(a, b, res, s, r)
    \/ \E a \in Ids : add_bye(a)
    \/ \E a \in Ids : reset(a)

Next == PlayerNext

Spec == Init /\ [][Next]_vars

\* The competitors, and reads of their ranking key between the calls.
ScoreNext ==
    \/ \E a, b \in Ids, res \in MatchResult, s, r \in Touches :
          Player_record_match(a, b, res, s, r)
    \/ \E a \in Ids : add_bye(a)
    \/ \E a \in Ids : reset(a)
    \/ \E a \in Ids : Player_score(a)

SpecScore == Init /\ [][ScoreNext]_vars

\* One match between two fresh competitors.
InitMatch == InitPlayers /\ m \in Matches

MatchNext ==
    \/ \E ps \in PlayerStatus \cup {None}, sc \in Scores : update_right(ps, sc)
    \/ \E ps \in PlayerStatus \cup {None}, sc \in Scores : update_left(ps, sc)
    \/ Match_record_match

SpecMatch == InitMatch /\ [][MatchNext]_vars

\* The sides of one match and the validity rules: the calls of Match that
\* update a side, Side.update itself, and the validity check.
SidesNext ==
    \/ \E ps \in PlayerStatus \cup {None}, sc \in Scores : update_right(ps, sc)
    \/ \E ps \in PlayerStatus \cup {None}, sc \in Scores : update_left(ps, sc)
    \/ \E ps \in PlayerStatus \cup {None}, sc \in Scores :
          Side_update_call("right", "left", ps, sc)
    \/ \E ps \in PlayerStatus \cup {None}, sc \in Scores :
          Side_update_call("left", "right", ps, sc)
    \/ Match_is_invalid

SpecSides == InitMatch /\ [][SidesNext]_vars

\* ------------------------------------------------ competitors before a round
Pairs == {pr \in SUBSET Ids : Cardinality(pr) = 2}

Low(pr) == CHOOSE a \in pr : \A b \in pr : a <= b
High(pr) == CHOOSE a \in pr : \A b \in pr : b <= a

\* What a pair has played: nothing, or one match, told from its lower id
\* (result, touches scored, touches received).
Played ==
    {<<"none", 0, 0>>} \cup
    {<<res, s, 0>> : res \in MatchResult, s \in 0..MaxTouch}

\* The record_match calls made before the round; the round is the last call
\* of the run.
Histories ==
    {h \in [Pairs -> Played] :
        Cardinality({pr \in Pairs : h[pr][1] # "none"}) <= MaxCalls - 1}

\* The competitors after the record_match calls of a history.
RECURSIVE AfterRecords(_, _, _)
AfterRecords(ps, h, todo) ==
    IF todo = {} THEN ps
    ELSE LET pr == CHOOSE x \in todo : TRUE
             next == IF h[pr][1] = "none" THEN ps
                     ELSE record_match_effect(ps, Low(pr), High(pr),
                                              h[pr][1], h[pr][2], h[pr][3])
         IN  AfterRecords(next, h, todo \ {pr})

\* ... then reset() of some, then add_bye() of some.
AfterHistory(h, resets, byes) ==
    LET ps == AfterRecords(FreshPlayers, h, Pairs) IN
    [a \in Ids |->
        LET p == IF a \in resets THEN NewPlayer ELSE ps[a]
        IN  [p EXCEPT !.exempted = a \in byes]]

\* The competitors a round is built over: what record_match, reset and add_bye
\* calls leave of fresh competitors.
InitRound ==
    /\ \E h \in Histories, resets \in {rs \in SUBSET Ids : Cardinality(rs) <= 1},
          byes \in SUBSET Ids :
          /\ players = AfterHistory(h, resets, byes)
          /\ recorded = {pr \in Pairs : h[pr][1] # "none" /\ pr \cap resets = {}}
    /\ ncalls = MaxCalls - 1
    /\ round = NoRound
    /\ last = NoCall
    /\ m = NewMatch

RoundNext == \E roster \in Rosters : NewRound(roster)

SpecRound == InitRound /\ [][RoundNext]_vars

\* ------------------------------------------- a round over up to four competitors
FourIds == 1..MaxRoster

FourPairs == {pr \in SUBSET FourIds : Cardinality(pr) = 2}

\* The record_match calls made before the round.
FourHistories ==
    {h \in [FourPairs -> Played] :
        Cardinality({pr \in FourPairs : h[pr][1] # "none"}) <= MaxCalls - 1}

FourRosters ==
    {s \in UNION {[1..n -> FourIds] : n \in 0..MaxRoster} :
        \A i, j \in DOMAIN s : i # j => s[i] # s[j]}

\* The competitors after the record_match calls of a history, none or all of
\* them exempted by add_bye.
InitFour ==
    /\ \E h \in FourHistories, byes \in {{}, FourIds} :
          /\ players = [a \in FourIds |->
                          [AfterRecords([b \in FourIds |-> NewPlayer], h, FourPairs)[a]
                              EXCEPT !.exempted = a \in byes]]
          /\ recorded = {pr \in FourPairs : h[pr][1] # "none"}
    /\ ncalls = MaxCalls - 1
    /\ round = NoRound
    /\ last = NoCall
    /\ m = NewMatch

\* _group_players is given what a construction hands to it: a roster, sorted,
\* less its bye.
FourNext ==
    \/ \E roster \in FourRosters : NewRound(roster)
    \/ \E roster \in FourRosters :
          Round_group_players(separate_players(players, sort(players, roster)).players)

SpecFour == InitFour /\ [][FourNext]_vars

\* ---------------------------------- rounds after three rounds' worth of matches
\* What a pair has played, with no touch scored on either side.
PlayedBare == {<<"none", 0, 0>>} \cup {<<res, 0, 0>> : res \in MatchResult}

\* The record_match calls made before the round, up to MaxCalls of them.
MergeHistories ==
    {h \in [FourPairs -> PlayedBare] :
        Cardinality({pr \in FourPairs : h[pr][1] # "none"}) <= MaxCalls}

\* The competitors after the record_match calls of a history, none or all of
\* them exempted by add_bye.
InitMerge ==
    /\ \E h \in MergeHistories, byes \in {{}, FourIds} :
          /\ players = [a \in FourIds |->
                          [AfterRecords([b \in FourIds |-> NewPlayer], h, FourPairs)[a]
                              EXCEPT !.exempted = a \in byes]]
          /\ recorded = {pr \in FourPairs : h[pr][1] # "none"}
    /\ ncalls = MaxCalls - 1
    /\ round = NoRound
    /\ last = NoCall
    /\ m = NewMatch

MergeNext == \E roster \in FourRosters : NewRound(roster)

SpecMerge == InitMerge /\ [][MergeNext]_vars

\* ------------------------------------------------------------------ claims
Updates == {"update_right", "update_left"}

UpdatedSide(call) == IF call.op = "update_right" THEN "right" ELSE "left"

\* C1: LOCKED is terminal: from a LOCKED match every step leaves the status and
\* both sides' score and result as they are, and every updateSide call fails
\* with the locked-mutation error.
C1_LockedIsTerminal ==
    [][m.match_status = "LOCKED" =>
        /\ m' = m
        /\ (last'.op \in Updates => last'.err = "LockedMatchMutation")]_vars

\* C2: recordMatch on a match that is INCOMPLETE, INVALID or LOCKED fails with
\* InvalidMatchRecordError and changes neither the match nor the competitors;
\* LOCKED is entered from VALID only.
C2_RecordNeedsValid ==
    [][/\ (last'.op = "match_record_match" /\ m.match_status \in {"EMPTY", "INVALID", "LOCKED"}) =>
            (last'.err = "InvalidMatchRecord" /\ m' = m /\ players' = players)
       /\ (m.match_status # "LOCKED" /\ m'.match_status = "LOCKED") =>
            m.match_status = "VALID"]_vars

Gain(res, kind) == IF res = kind THEN 1 ELSE 0

Complement(res) == CASE res = "WIN" -> "LOSS" [] res = "LOSS" -> "WIN" [] OTHER -> res

\* The statistics of competitor a after one match against b, from those before.
AfterOneMatch(before, after, a, b, res, s, r) ==
    /\ after[a].victories = before[a].victories + Gain(res, "WIN")
    /\ after[a].draws = before[a].draws + Gain(res, "DRAW")
    /\ after[a].touches_scored = before[a].touches_scored + s
    /\ after[a].touches_received = before[a].touches_received + r
    /\ after[a].opponents = before[a].opponents \cup {b}

\* C3: recordMatch on a VALID match whose competitors have not met completes
\* without error, leaves the match LOCKED, and each competitor has the other in
\* opponents and the match in its statistics exactly once.
C3_RecordValidMatch ==
    [][(/\ last'.op = "match_record_match"
        /\ m.match_status = "VALID"
        /\ m.left.player \notin players[m.right.player].opponents
        /\ m.right.player \notin players[m.left.player].opponents) =>
            /\ last'.err = "none"
            /\ m'.match_status = "LOCKED"
            /\ AfterOneMatch(players, players', m.right.player, m.left.player,
                             m.right.player_status, m.right.score, m.left.score)
            /\ AfterOneMatch(players, players', m.left.player, m.right.player,
                             m.left.player_status, m.left.score, m.right.score)]_vars

\* The status the rules give a match: INCOMPLETE (EMPTY) if a result or a score
\* is missing, else INVALID if the validity rules fail, else VALID.
RuledStatus(mm) ==
    IF \/ mm.right.player_status = None \/ mm.left.player_status = None
       \/ mm.right.score = NoScore \/ mm.left.score = NoScore
    THEN "EMPTY"
    ELSE IF is_invalid(mm) THEN "INVALID" ELSE "VALID"

\* C4: an updateSide call on a match that is not LOCKED completes without error,
\* sets the updated side's score to the value given, and leaves the status
\* INCOMPLETE, INVALID or VALID as the rules give it.
C4_UpdateSucceeds ==
    [][(last'.op \in Updates /\ m.match_status # "LOCKED") =>
            /\ last'.err = "none"
            /\ m'[UpdatedSide(last')].score = last'.s
            /\ m'.match_status = RuledStatus(m')]_vars

\* The pairs of a round's matches.
RoundPairs == ungroup_matches(round.grouped)

\* Both competitors of the pair list each other in opponents.
ListEachOther(pr) == \A a, b \in pr : a # b => b \in players[a].opponents

\* C5: no match of a round pairs two competitors whose opponents sets contain
\* each other's id; hence no pair that has been recorded against each other is
\* matched again.
C5_NoRematch ==
    round.status = "ok" =>
        \A pr \in RoundPairs : ~ListEachOther(pr) /\ pr \notin recorded

\* A round with a match, built over a roster of which two have met.
C5_Witness ==
    /\ round.status = "ok"
    /\ RoundPairs # {}
    /\ \E pr \in recorded : \A a \in pr : \E i \in DOMAIN round.players : round.players[i] = a

\* The competitors of a sequence, as a set.
Members(seq) == {seq[i] : i \in DOMAIN seq}

\* A pairing of all of S in which no pair has met (neither lists the other).
RECURSIVE PerfectPairing(_)
PerfectPairing(S) ==
    IF S = {} THEN TRUE
    ELSE LET a == CHOOSE x \in S : TRUE
         IN  \E b \in S \ {a} :
                /\ b \notin players[a].opponents
                /\ a \notin players[b].opponents
                /\ PerfectPairing(S \ {a, b})

\* C6: a round over a roster of even size that has a perfect rematch-free
\* pairing is built, with N/2 matches and no bye.
C6_EvenRoster ==
    (/\ last.op = "round"
     /\ Len(last.roster) % 2 = 0
     /\ PerfectPairing(Members(last.roster))) =>
        /\ round.status = "ok"
        /\ NumMatches(round) = Len(last.roster) \div 2
        /\ round.bye = NoPlayer

\* C7: a round over a roster of odd size with a non-exempted competitor, whose
\* other N-1 competitors have a perfect rematch-free pairing whoever of the
\* non-exempted is left out, is built with one bye, (N-1)/2 matches, and the bye
\* in no match.
C7_OddRoster ==
    (/\ last.op = "round"
     /\ Len(last.roster) % 2 = 1
     /\ \E a \in Members(last.roster) : ~players[a].exempted
     /\ \A a \in Members(last.roster) :
            ~players[a].exempted => PerfectPairing(Members(last.roster) \ {a})) =>
        /\ round.status = "ok"
        /\ round.bye \in Members(last.roster)
        /\ NumMatches(round) = (Len(last.roster) - 1) \div 2
        /\ \A pr \in RoundPairs : round.bye \notin pr

\* The competing set of the latest roster: all of it but the bye.
Competing == Members(separate_players(players, sort(players, last.roster)).players)

\* C8: a round over a competing set with no perfect rematch-free pairing fails
\* with UnmatchableRoundError, and with no other error, and exposes no match
\* and no bye.
C8_Unmatchable ==
    (last.op = "round" /\ ~PerfectPairing(Competing)) =>
        /\ round.status = "UnmatchableRound"
        /\ last.err = "UnmatchableRound"
        /\ round.grouped = << >>
        /\ round.bye = NoPlayer

\* C9: recordMatch between A and B fails with DuplicateOpponentError whenever
\* either lists the other in opponents, and a call that fails leaves every
\* competitor as it was.
C9_DuplicateOpponent ==
    [][last'.op = "record_match" =>
        /\ (\/ last'.b \in players[last'.a].opponents
            \/ last'.a \in players[last'.b].opponents) => last'.err = "DuplicateOpponent"
        /\ last'.err # "none" => players' = players]_vars

\* A call refused although only the opponent lists the caller.
C9_Witness ==
    /\ last.op = "record_match"
    /\ last.err = "DuplicateOpponent"
    /\ last.a # last.b
    /\ last.a \in players[last.b].opponents
    /\ last.b \notin players[last.a].opponents

\* C10: a successful recordMatch(opponent, selfResult, s, r) between two
\* competitors gives self a victory on WIN, a draw on DRAW, neither on LOSS, and
\* the opponent the complementary result; self's touches scored rise by s and
\* received by r, the opponent's by r and s; each id joins the other's opponents.
C10_RecordUpdatesBoth ==
    [][(last'.op = "record_match" /\ last'.err = "none" /\ last'.a # last'.b) =>
        /\ AfterOneMatch(players, players', last'.a, last'.b, last'.res, last'.s, last'.r)
        /\ AfterOneMatch(players, players', last'.b, last'.a, Complement(last'.res),
                         last'.r, last'.s)]_vars

\* A recorded win with touches on both sides, between two competitors.
C10_Witness ==
    /\ last.op = "record_match"
    /\ last.err = "none"
    /\ last.a # last.b
    /\ last.res = "WIN"
    /\ last.s > 0 /\ last.r > 0
    /\ players[last.a].victories > 0
    /\ last.a \in players[last.b].opponents

\* Membership in opponents goes both ways between every two competitors.
Symmetric(ps) == \A a, b \in Ids : b \in ps[a].opponents <=> a \in ps[b].opponents

\* C11 (as stated): opponents membership is symmetric in every reachable state,
\* after any sequence of recordMatch, addBye and reset operations.
C11_OpponentsSymmetric == Symmetric(players)

\* C11 (amended): recordMatch and addBye keep opponents membership symmetric;
\* reset of a competitor empties its own opponents and leaves every other
\* competitor's opponents, with the id of the one reset in them, as they were.
C11_SymmetricUntilReset ==
    [][/\ last'.op # "reset" => (Symmetric(players) => Symmetric(players'))
       /\ last'.op = "reset" =>
            /\ players'[last'.a].opponents = {}
            /\ \A b \in Ids \ {last'.a} : players'[b].opponents = players[b].opponents]_vars

\* Two competitors recorded against each other and listing each other, while a
\* third has been exempted.
C11_Witness ==
    /\ last.op = "record_match"
    /\ last.err = "none"
    /\ last.a # last.b
    /\ last.b \in players[last.a].opponents
    /\ last.a \in players[last.b].opponents
    /\ Symmetric(players)
    /\ \E c \in Ids \ {last.a, last.b} : players[c].exempted

\* C12: a competitor's opponents never contains the competitor's own id, for
\* any sequence of recordMatch calls with any opponent (the competitor itself
\* included), addBye and reset.
C12_NoSelfOpponent == \A a \in Ids : a \notin players[a].opponents

SideNames == {"right", "left"}

OtherSide(side) == IF side = "right" THEN "left" ELSE "right"

\* Both results and both scores are set.
Complete(mm) ==
    \A side \in SideNames : mm[side].player_status # None /\ mm[side].score # NoScore

\* The validity rules with draws allowed, as the claim words them.
InvalidWithDraws(mm) ==
    \/ mm.right.player_status = mm.left.player_status /\ mm.right.player_status # "DRAW"
    \/ \E side \in SideNames :
         LET own == mm[side].score
             opp == mm[OtherSide(side)].score
         IN  \/ mm[side].player_status = "WIN" /\ ~(own > opp)
             \/ mm[side].player_status = "LOSS" /\ ~(own < opp)
             \/ mm[side].player_status = "DRAW" /\ own # opp

\* C13: with draws allowed, a match with both results and both scores set is
\* found INVALID exactly when both sides have the same non-DRAW result, or a WIN
\* side's score is not strictly greater than the opponent's, or a LOSS side's
\* is not strictly less, or a DRAW side's differs; otherwise VALID. A draw on
\* equal scores is VALID, a right-side WIN on equal scores INVALID.
C13_RulesWithDraws ==
    (last.op = "_is_invalid" /\ m.draw_allowed /\ Complete(m)) =>
        /\ last.err = "none"
        /\ last.res = BoolName(InvalidWithDraws(m))
        /\ ComputedStatus(m) = IF InvalidWithDraws(m) THEN "INVALID" ELSE "VALID"
        /\ (/\ m.right.player_status = "DRAW" /\ m.left.player_status = "DRAW"
            /\ m.right.score = m.left.score) => last.res = "False"
        /\ (m.right.player_status = "WIN" /\ m.right.score = m.left.score) =>
                last.res = "True"

\* A draw on equal scores, checked with draws allowed and found not invalid.
C13_Witness ==
    /\ last.op = "_is_invalid"
    /\ m.draw_allowed
    /\ m.right.player_status = "DRAW" /\ m.left.player_status = "DRAW"
    /\ m.right.score = MaxScore /\ m.left.score = MaxScore
    /\ last.res = "False"

\* The validity rules with draws disallowed, as the claim words them.
InvalidWithoutDraws(mm) ==
    \/ \E side \in SideNames : mm[side].player_status = "DRAW"
    \/ mm.right.player_status = mm.left.player_status
    \/ \E side \in SideNames :
         LET own == mm[side].score
             opp == mm[OtherSide(side)].score
         IN  \/ mm[side].player_status = "WIN" /\ own < opp
             \/ mm[side].player_status = "LOSS" /\ own > opp

\* C14: with draws disallowed, a match with both results and both scores set is
\* found INVALID exactly when either side's result is DRAW, or both sides share
\* the same result, or a WIN side's score is less than the opponent's, or a LOSS
\* side's greater; a WIN against a LOSS on equal scores is VALID, a right-side
\* DRAW INVALID.
C14_RulesWithoutDraws ==
    (last.op = "_is_invalid" /\ ~m.draw_allowed /\ Complete(m)) =>
        /\ last.err = "none"
        /\ last.res = BoolName(InvalidWithoutDraws(m))
        /\ ComputedStatus(m) = IF InvalidWithoutDraws(m) THEN "INVALID" ELSE "VALID"
        /\ (/\ m.right.player_status = "WIN" /\ m.left.player_status = "LOSS"
            /\ m.right.score = m.left.score) => last.res = "False"
        /\ m.right.player_status = "DRAW" => last.res = "True"

\* A win against a loss on equal scores, checked with draws disallowed and
\* found not invalid.
C14_Witness ==
    /\ last.op = "_is_invalid"
    /\ ~m.draw_allowed
    /\ m.right.player_status = "WIN" /\ m.left.player_status = "LOSS"
    /\ m.right.score = MaxScore /\ m.left.score = MaxScore
    /\ last.res = "False"

\* The position of a competitor in a list.
PositionIn(seq, a) == CHOOSE i \in DOMAIN seq : seq[i] = a

\* C15: round construction orders the roster by score descending: a competitor
\* with a greater score is placed strictly before one with a lesser score, and
\* competitors with equal score keep their relative order in the roster.
C15_SortedDescending ==
    last.op = "round" =>
        /\ Members(round.players) = Members(last.roster)
        /\ Len(round.players) = Len(last.roster)
        /\ \A a, b \in Members(last.roster) :
            /\ TupleLt(ComputedScore(players[b]), ComputedScore(players[a])) =>
                    PositionIn(round.players, a) < PositionIn(round.players, b)
            /\ (/\ ComputedScore(players[a]) = ComputedScore(players[b])
                /\ PositionIn(last.roster, a) < PositionIn(last.roster, b)) =>
                    PositionIn(round.players, a) < PositionIn(round.players, b)

\* The groups the latest round's competing set falls into.
Groups == group_players(players, separate_players(players, round.players).players)

\* Every pairing of all of S in which no pair has met.
RECURSIVE PerfectPairings(_)
PerfectPairings(S) ==
    IF S = {} THEN {{}}
    ELSE LET a == CHOOSE x \in S : TRUE
         IN  UNION {{P \cup {{a, b}} : P \in PerfectPairings(S \ {a, b})} :
                      b \in {c \in S \ {a} : /\ c \notin players[a].opponents
                                              /\ a \notin players[c].opponents}}

\* The weight of a pair of group g: | rank difference - floor(size / 2) |.
PairWeight(g, pr) ==
    LET d == PositionIn(g, Low(pr)) - PositionIn(g, High(pr))
        apart == IF d < 0 THEN -d ELSE d
        off == apart - (Len(g) \div 2)
    IN  IF off < 0 THEN -off ELSE off

RECURSIVE TotalWeight(_, _)
TotalWeight(g, P) ==
    IF P = {} THEN 0
    ELSE LET pr == CHOOSE x \in P : TRUE IN PairWeight(g, pr) + TotalWeight(g, P \ {pr})

\* A competitor with no history.
Untouched(a) == [players[a] EXCEPT !.cached_score = NoCache, !.exempted = FALSE] = NewPlayer

\* C16: in a group whose members can all be paired the round's pairs are a
\* perfect rematch-free pairing of the group of minimum total weight; four
\* competitors with no history, in roster order P0..P3, are matched {P0,P2} and
\* {P1,P3}.
C16_MinWeightPairs ==
    last.op = "round" =>
        /\ \A k \in DOMAIN Groups :
             LET g == Groups[k]
                 all == PerfectPairings(Members(g))
                 chosen == {pr \in RoundPairs : pr \subseteq Members(g)}
             IN  (g # << >> /\ all # {}) =>
                    /\ round.status = "ok"
                    /\ chosen \in all
                    /\ \A P \in all : TotalWeight(g, chosen) <= TotalWeight(g, P)
        /\ (Len(last.roster) = 4 /\ \A a \in Members(last.roster) : Untouched(a)) =>
              /\ round.status = "ok"
              /\ RoundPairs = {{last.roster[1], last.roster[3]},
                               {last.roster[2], last.roster[4]}}

\* The calls that run Side.update on a side, and the side they run it on: a
\* call of Side.update, or a call of Match.update_right / update_left that its
\* lock guard lets through.
SideUpdates == {"right.update", "left.update"}

RunsSideUpdate(call) ==
    \/ call.op \in SideUpdates
    \/ call.op \in Updates /\ call.err # "LockedMatchMutation"

SideOf(call) == IF call.op \in {"right.update", "update_right"} THEN "right" ELSE "left"

\* The result of comparing a side's score with the other's.
ByScores(own, opp) == IF own > opp THEN "WIN" ELSE IF own < opp THEN "LOSS" ELSE "DRAW"

\* C17: an update of a side sets its score and resolves its result by strict
\* priority: the result argument if given; else the complement of the other
\* side's result if set, whatever the scores; else, with both scores set, the
\* comparison of the scores; else unset, which clears a result set before.
C17_ResultPriority ==
    [][RunsSideUpdate(last') =>
        LET self == SideOf(last')
            other == m[OtherSide(self)]
            arg == last'.res
            resolved == m'[self].player_status
        IN  /\ m'[self].score = last'.s
            /\ arg # None => resolved = arg
            /\ (arg = None /\ other.player_status # None) =>
                    resolved = Complement(other.player_status)
            /\ (/\ arg = None /\ other.player_status = None
                /\ last'.s # NoScore /\ other.score # NoScore) =>
                    resolved = ByScores(last'.s, other.score)
            /\ (/\ arg = None /\ other.player_status = None
                /\ (last'.s = NoScore \/ other.score = NoScore)) =>
                    resolved = None]_vars

\* The right side updated with no result argument: it took the complement of
\* the left side's WIN although its own score is the higher.
C17_Witness ==
    /\ last.op = "right.update"
    /\ last.res = None
    /\ m.left.player_status = "WIN"
    /\ m.right.player_status = "LOSS"
    /\ m.right.score # NoScore /\ m.left.score # NoScore
    /\ m.right.score > m.left.score

\* C18: an update of one side leaves the opposite side's score and result as
\* they were (the two results can then contradict each other until the opposite
\* side is updated too).
C18_OppositeSideUnchanged ==
    [][(last'.op \in SideUpdates \cup Updates) =>
            m'[OtherSide(SideOf(last'))] = m[OtherSide(SideOf(last'))]]_vars

\* The right side updated to an explicit WIN while the left side keeps its WIN.
C18_Witness ==
    /\ last.op = "right.update"
    /\ last.res = "WIN"
    /\ m.right.player_status = "WIN"
    /\ m.left.player_status = "WIN"
    /\ m.left.score # NoScore

\* What _separate_players returns over the latest roster, as sorted.
Designated == separate_players(players, round.players)

\* C19: over a roster of odd size the bye is the lowest-ranked competitor (by
\* score) that is not exempted; an exempted competitor is never the bye; and if
\* all are exempted there is no bye and the competing set stays of odd size.
C19_ByeIsLowest ==
    (last.op = "round" /\ Len(last.roster) % 2 = 1) =>
        LET free == {a \in Members(last.roster) : ~players[a].exempted}
            bye == Designated.bye
        IN  /\ free # {} =>
                /\ bye \in free
                /\ \A b \in free :
                      ~TupleLt(ComputedScore(players[b]), ComputedScore(players[bye]))
            /\ free = {} =>
                /\ bye = NoPlayer
                /\ Len(Designated.players) % 2 = 1
            /\ round.status = "ok" => round.bye = bye

\* The groups the latest _group_players call returned, and the list it was given.
Grouped == round.grouped

Given == round.players

RECURSIVE Flatten(_)
Flatten(ss) == IF ss = << >> THEN << >> ELSE Head(ss) \o Flatten(Tail(ss))

\* The (victories, draws) results of a list, as a set, and how many of the
\* list have one of the k best of them.
ResultsOf(list) == {result(players[list[i]]) : i \in DOMAIN list}

Better(res, list) == {o \in ResultsOf(list) : PairLt(res, o)}

AmongBest(list, k) ==
    Cardinality({i \in DOMAIN list :
                    Cardinality(Better(result(players[list[i]]), list)) < k})

\* The list ordered by result from best to worst, list order kept within a result.
ByResult(list) ==
    LET before(i, j) ==
            \/ PairLt(result(players[list[j]]), result(players[list[i]]))
            \/ result(players[list[i]]) = result(players[list[j]]) /\ i < j
    IN  [n \in DOMAIN list |->
            list[CHOOSE i \in DOMAIN list :
                    Cardinality({j \in DOMAIN list : before(j, i)}) = n - 1]]

\* The length of the first k groups together.
RECURSIVE Through(_, _)
Through(groups, k) == IF k = 0 THEN 0 ELSE Len(groups[k]) + Through(groups, k - 1)

\* The k-th best result of the list.
KthResult(list, k) ==
    CHOOSE res \in ResultsOf(list) : Cardinality(Better(res, list)) = k - 1

\* C20 (as stated): grouping partitions the competing set by result, best to
\* worst, and every odd-sized group but the last moves its lowest-ranked member
\* into the next group: competitors only move to a later group, the first group
\* is the competitors of the best result, less the lowest-ranked of them if they
\* are odd in number; every group but the last has even size and no competitor
\* is lost or duplicated.
C20_OddGroupMovesLowestDown ==
    last.op = "group_players" =>
        /\ Len(Flatten(Grouped)) = Len(Given)
        /\ Members(Flatten(Grouped)) = Members(Given)
        /\ \A k \in 1..Len(Grouped) - 1 : Len(Grouped[k]) % 2 = 0
        /\ \A k \in DOMAIN Grouped : \A a \in Members(Grouped[k]) :
              ~PairLt(result(players[a]), KthResult(Given, k))
        /\ Len(Grouped) > 1 =>
              LET best == {a \in Members(Given) :
                              result(players[a]) = KthResult(Given, 1)}
                  moved == best \ Members(Grouped[1])
              IN  /\ Members(Grouped[1]) \subseteq best
                  /\ Cardinality(moved) = Cardinality(best) % 2
                  /\ \A a \in moved : \A b \in best :
                        ~TupleLt(ComputedScore(players[b]), ComputedScore(players[a]))

\* C20 (amended): the groups, in order, hold the competing set ordered by
\* result from best to worst (list order kept within a result), one group for
\* every result; every odd-sized group but the last takes the first member of
\* the next group, so that the first k groups together hold the competitors of
\* the k best results and, if these are odd in number, the next one; every
\* group but the last has even size and no competitor is lost or duplicated.
C20_OddGroupTakesNext ==
    last.op = "group_players" =>
        /\ Flatten(Grouped) = ByResult(Given)
        /\ Len(Grouped) = Cardinality(ResultsOf(Given))
        /\ \A k \in 1..Len(Grouped) - 1 :
              /\ Len(Grouped[k]) % 2 = 0
              /\ Through(Grouped, k) = AmongBest(Given, k) + (AmongBest(Given, k) % 2)

\* A grouping whose first group was odd and holds a competitor of the next result.
C20_Witness ==
    /\ last.op = "group_players"
    /\ Len(Grouped) > 1
    /\ \E a, b \in Members(Grouped[1]) : PairLt(result(players[a]), result(players[b]))
    /\ Len(Grouped[Len(Grouped)]) % 2 = 0

\* Whether the members of a group can all be paired among themselves with no
\* rematch.
Pairable(g) == PerfectPairings(Members(g)) # {}

\* The pairs of the round made of members of S only.
PairsWithin(S) == {pr \in RoundPairs : pr \subseteq S}

\* Group j is the first that cannot be fully paired internally, it is not the
\* last, and pairing succeeds once it is concatenated with the next group.
ForwardCase(gs, j) ==
    /\ j < Len(gs)
    /\ \A k \in 1..(j - 1) : Pairable(gs[k])
    /\ ~Pairable(gs[j])
    /\ Pairable(gs[j] \o gs[j + 1])
    /\ \A k \in (j + 2)..Len(gs) : Pairable(gs[k])

\* C21: forward merge: when a group that is not the last cannot be fully
\* paired internally, it is concatenated with the next group and matching is
\* retried from there: the round is built, every earlier group keeps a full
\* pairing of its own members, and the members of the two concatenated groups
\* are paired among themselves.
C21_ForwardMerge ==
    last.op = "round" =>
        \A j \in DOMAIN Groups :
            ForwardCase(Groups, j) =>
                /\ round.status = "ok"
                /\ \A k \in 1..(j - 1) :
                      PairsWithin(Members(Groups[k])) \in PerfectPairings(Members(Groups[k]))
                /\ PairsWithin(Members(Groups[j] \o Groups[j + 1]))
                      \in PerfectPairings(Members(Groups[j] \o Groups[j + 1]))

\* The last group cannot be fully paired internally, every earlier group can,
\* and pairing succeeds once the last group is merged into the previous one.
BackwardCase(gs) ==
    /\ Len(gs) > 1
    /\ \A k \in 1..(Len(gs) - 1) : Pairable(gs[k])
    /\ ~Pairable(gs[Len(gs)])
    /\ Pairable(gs[Len(gs) - 1] \o gs[Len(gs)])

\* C22: backward merge: when the last group cannot be fully paired and an
\* earlier group exists, the last group is merged into the previous group and
\* matching is retried from the merged group: the round is built, and every
\* member of the two merged groups is in exactly one match.
C22_BackwardMerge ==
    (last.op = "round" /\ BackwardCase(Groups)) =>
        /\ round.status = "ok"
        /\ \A a \in Members(Groups[Len(Groups) - 1] \o Groups[Len(Groups)]) :
              Cardinality({pr \in RoundPairs : a \in pr}) = 1

\* C23: round construction terminates, and it ends either with a match list
\* or with the unmatchable-round error, never with any other failure such as
\* merging past the last group.
C23_EndsBuiltOrUnmatchable ==
    last.op = "round" => round.status \in {"ok", "UnmatchableRound"}

\* C24: in every successfully constructed round the matches are pairwise
\* disjoint and cover the competing set: every competitor of the roster other
\* than the bye is in exactly one match, every match is made of two different
\* competitors of the competing set.
C24_MatchesCoverCompeting ==
    (last.op = "round" /\ round.status = "ok") =>
        LET competing == Members(round.players) \ {round.bye} IN
        /\ \A pr \in RoundPairs : Cardinality(pr) = 2 /\ pr \subseteq competing
        /\ \A a \in competing : Cardinality({pr \in RoundPairs : a \in pr}) = 1

\* C25: the cached ranking key is never stale: after any sequence of
\* record_match (as self or as opponent), add_bye and reset calls, the score a
\* competitor gives is ((victories, draws), touches scored - touches received,
\* touches scored) of its current statistics, and the competitors keep the ids
\* they were created with.
C25_ScoreNeverStale ==
    /\ DOMAIN players = Ids
    /\ \A a \in Ids :
          score(players[a]) =
              <<<<players[a].victories, players[a].draws>>,
                players[a].touches_scored - players[a].touches_received,
                players[a].touches_scored>>

\* The score of a competitor read after matches were recorded for it, as self
\* and as opponent.
C25_Witness ==
    /\ last.op = "score"
    /\ Cardinality(players[last.a].opponents \ {last.a}) = 2
    /\ players[last.a].victories = 1
    /\ players[last.a].cached_score = <<<<1, 0>>, 0, players[last.a].touches_scored>>
    /\ players[last.a].touches_scored > 0

====
